---- MODULE Spec2Model ----
(***************************************************************************)
(* Reward-policy recommendation engine of HR_FLASK (src/src/gyu).          *)
(*                                                                         *)
(* Text is a sequence of one-character strings.  The letters stand for     *)
(* Hangul syllables; "G" and "B" are upper-case forms that str.lower()     *)
(* folds to "g" and "b"; " " is whitespace and "." is punctuation.         *)
(* A similarity is a fixed-point number: the integer s stands for the      *)
(* float s / SimScale.  The fused score of the lexical engine is exact on  *)
(* the model's inputs; that of the embedding engine follows the double     *)
(* arithmetic of Python, which lands one below the exact integer on the    *)
(* inputs of DoubleLandsBelow (e.g. (0.35 + 0.3) * 100 truncates to 64).   *)
(* The vectorizer of scikit-learn and the sentence-embedding model are     *)
(* outside the repository: inside analyze a call of them answers any value *)
(* of its range or raises.  For the calls of several threads on the shared *)
(* vectorizer, fit_transform is modelled step by step (count, fit, weigh). *)
(* Inside analyze the tokenizer is the one of a process without kiwipiepy  *)
(* (KIWI_AVAILABLE = False, self.kiwi is None); SpecTokenizer runs         *)
(* tokenize on both paths, the analyzer answering any cut of the words.    *)
(* The routes of src/gyu/routes.py stand in front of the engine and build  *)
(* it on demand (SpecHttp, SpecInstance).  SpecFusion and SpecReason run   *)
(* the score fusion and _generate_reason of _match_policy on finer grids.  *)
(* SpecChat is handle_question of src/young/chatbot with its chat_history. *)
(***************************************************************************)
EXTENDS Integers, Sequences, FiniteSets, TLC

VARIABLES
    max_recommendations, \* RECOMMENDATION_CONFIG["max_recommendations"]
    recommender,         \* class of the engine instance: "tfidf" or "kobert"
    pc,                  \* where analyze stands: "idle", "entered", "loop", "done"
    comments,            \* argument of analyze: sequence of texts
    policies,            \* argument of analyze: sequence of policy entries
    combined_comments,   \* local of analyze
    extracted_keywords,  \* local of analyze
    sentiment,           \* local of analyze ("unset" before it is assigned)
    recommendations,     \* local of analyze: the list under construction
    outcome,             \* "none", "returned" or "raised"
    result,              \* the dict analyze returned
    scored,              \* log: what _match_policy returned, policy by policy
    modelCalls,          \* log: invocations of the vectorizer / the model
    failedAt,            \* log: position of the policy whose scoring raised, or 0
    argText,             \* arguments of a direct analyze_sentiment call
    argPositive,
    argNegative,
    verdict,             \* its return value ("unset" before the call)
    kwText,              \* arguments of a direct extract_keywords call
    kwTopN,
    kwpc,                \* "called" or "returned"
    kwResult,            \* its return value
    min_df,              \* TFIDF_CONFIG["min_df"]
    idf_,                \* self.vectorizer: the fitted idf weights (<<>> before a fit)
    tpc,                 \* per thread: where its calculate_similarity call stands
    targs,               \* per thread: <<text1, text2>>
    tX,                  \* per thread: the term-count matrix of its two texts
    tres,                \* per thread: the similarity it returned, in 1 / CosScale
    tbefore,             \* log, per thread: idf_ as the call found it
    RECOMMENDER_TYPE,    \* config.RECOMMENDER_TYPE
    endpoint,            \* route of the request in hand: "none", "health", ...
    hpc,                 \* where its handler stands
    data,                \* request.get_json(): "none", "dict" or "list"
    response,            \* the response of the handler: status code and kind
    fEngine,             \* a direct run of the score fusion of _match_policy:
    fSimilarity,         \*   similarity_score, in 1 / SimScale
    fMatched,            \*   len(matched_keywords)
    fTotal,              \*   len(policy_keywords)
    fpc,                 \*   "idle", "called" or "returned"
    fScore,              \*   final_score
    recommenderInstance, \* routes._recommender as the threads see it: 0 is None,
                         \*   n > 0 the n-th engine object that was built
    constructions,       \* log: how many engine objects have been built
    rpc,                 \* per thread: where its get_recommender_instance call stands
    rendpoint,           \* per thread: the route it serves
    rused,               \* per thread: the engine object its handler works with
    gEngine,             \* a direct call of _generate_reason: class of the engine,
    gSimilarity,         \*   similarity, in 1 / ReasonScale
    gMatched,            \*   matched_keywords
    gpc,                 \*   "idle", "called" or "returned"
    gReason,             \*   the list reasons before the join
    tkKiwi,              \* TextPreprocessor.kiwi is not None
    tkText,              \* arguments of a direct tokenize call
    tkUsePosFilter,
    tkAnalysis,          \* what kiwi.tokenize answers for the preprocessed text
    tkpc,                \* "idle", "called" or "returned"
    tkTokens,            \* its return value
    knowledgeBase,       \* question_service: documents, vectorizer, doc_vectors loaded
    chat_history,        \* question_service.chat_history
    user_message,        \* argument of the handle_question call in hand
    cpc,                 \* where handle_question stands
    answer,              \* what ask_ollama returned
    chatResult,          \* kind of the dict handle_question returned
    historyBefore        \* log: chat_history as the call found it

config == <<max_recommendations, recommender>>

locals == <<combined_comments, extracted_keywords, sentiment, recommendations>>

directVars == <<argText, argPositive, argNegative, verdict>>

keywordVars == <<kwText, kwTopN, kwpc, kwResult>>

vectorizerVars == <<min_df, idf_, tpc, targs, tX, tres, tbefore>>

httpVars == <<RECOMMENDER_TYPE, endpoint, hpc, data, response>>

fusionVars == <<fEngine, fSimilarity, fMatched, fTotal, fpc, fScore>>

instanceVars == <<recommenderInstance, constructions, rpc, rendpoint, rused>>

reasonVars == <<gEngine, gSimilarity, gMatched, gpc, gReason>>

tokenizerVars == <<tkKiwi, tkText, tkUsePosFilter, tkAnalysis, tkpc, tkTokens>>

chatVars == <<knowledgeBase, chat_history, user_message, cpc, answer, chatResult,
              historyBefore>>

lateVars == <<reasonVars, tokenizerVars, chatVars>>

moreVars == <<fusionVars, instanceVars, lateVars>>

otherVars == <<keywordVars, vectorizerVars, httpVars, moreVars>>

vars == <<max_recommendations, recommender, pc, comments, policies, combined_comments,
          extracted_keywords, sentiment, recommendations, outcome, result, scored,
          modelCalls, failedAt, argText, argPositive, argNegative, verdict,
          kwText, kwTopN, kwpc, kwResult, min_df, idf_, tpc, targs, tX, tres,
          tbefore, RECOMMENDER_TYPE, endpoint, hpc, data, response,
          fEngine, fSimilarity, fMatched, fTotal, fpc, fScore,
          recommenderInstance, constructions, rpc, rendpoint, rused,
          gEngine, gSimilarity, gMatched, gpc, gReason,
          tkKiwi, tkText, tkUsePosFilter, tkAnalysis, tkpc, tkTokens,
          knowledgeBase, chat_history, user_message, cpc, answer, chatResult,
          historyBefore>>

----------------------------------------------------------------------------
(* Bounds of the model *)

MaxComments == 2      \* longest comment list
MaxChars == 2         \* most characters in all comments of a request together
MaxPolicies == 2      \* longest policy list
MaxRecs == 2          \* largest configured max_recommendations
SimScale == 1         \* similarities are multiples of 1 / SimScale
MaxTextLen == 3       \* longest text given to analyze_sentiment directly
MaxWords == 2         \* longest word list given to analyze_sentiment directly
MaxKeywordLen == 8    \* longest text given to extract_keywords directly
MaxTopN == 3          \* largest top_n given to extract_keywords directly
NumThreads == 2       \* threads that call calculate_similarity on one engine
MaxDictKeywords == 5  \* longest keyword list of a dictionary entry in a fusion run
CosScale == 10        \* a cosine is kept in steps of 1 / CosScale, rounded down
ReasonScale == 10     \* a similarity given to _generate_reason directly: n / ReasonScale
MaxTokenizeLen == 6   \* longest text given to tokenize directly

----------------------------------------------------------------------------
(* Configuration (src/gyu/config.py) *)

min_match_score == 30

SENTIMENT_KEYWORDS ==
    [positive |-> << <<"g">>, <<"g", "g">> >>,
     negative |-> << <<"b">>, <<"b", "b">> >>]

\* POLICY_KEYWORDS.get(policy_name, []): only the policy named "p" has an entry
POLICY_KEYWORDS_get(policy_name) ==
    IF policy_name = <<"p">> THEN << <<"g">>, <<"b">> >> ELSE <<>>

SKIP_REASON == "negative evaluations dominate: excluded from reward recommendation"

----------------------------------------------------------------------------
(* Python str and list primitives *)

\* needle in haystack
IsSubstring(w, t) ==
    \E i \in 0..(Len(t) - Len(w)) : SubSeq(t, i + 1, i + Len(w)) = w

LowerChar(c) == IF c = "G" THEN "g" ELSE IF c = "B" THEN "b" ELSE c

\* str.lower()
Lower(t) == [i \in DOMAIN t |-> LowerChar(t[i])]

RECURSIVE JoinNonEmpty(_)
\* ' '.join(filter(None, texts))
JoinNonEmpty(texts) ==
    IF texts = <<>> THEN <<>>
    ELSE LET rest == JoinNonEmpty(Tail(texts))
         IN  IF Head(texts) = <<>> THEN rest
             ELSE IF rest = <<>> THEN Head(texts)
             ELSE Head(texts) \o <<" ">> \o rest

RECURSIVE JoinAll(_)
\* ' '.join(texts), the empty texts included
JoinAll(texts) ==
    IF texts = <<>> THEN <<>>
    ELSE IF Len(texts) = 1 THEN Head(texts)
    ELSE Head(texts) \o <<" ">> \o JoinAll(Tail(texts))

\* join without filter(None, texts)
join_texts_unfiltered(texts) == JoinAll(texts)

join_texts(texts) == JoinNonEmpty(texts)

RECURSIVE CountIn(_, _)
\* sum(1 for word in words if word in t)
CountIn(words, t) ==
    IF words = <<>> THEN 0
    ELSE (IF IsSubstring(Head(words), t) THEN 1 ELSE 0) + CountIn(Tail(words), t)

\* TextPreprocessor.analyze_sentiment, with > read the wrong way round
analyze_sentiment_swapped(t, positive_words, negative_words) ==
    IF t = <<>> THEN "neutral"
    ELSE LET text_lower == Lower(t)
             positive_count == CountIn(positive_words, text_lower)
             negative_count == CountIn(negative_words, text_lower)
         IN  IF positive_count > negative_count THEN "positive"
             ELSE IF negative_count >= positive_count THEN "negative"
             ELSE "neutral"

\* TextPreprocessor.analyze_sentiment
analyze_sentiment(t, positive_words, negative_words) ==
    IF t = <<>> THEN "neutral"
    ELSE LET text_lower == Lower(t)
             positive_count == CountIn(positive_words, text_lower)
             negative_count == CountIn(negative_words, text_lower)
         IN  IF positive_count > negative_count THEN "positive"
             ELSE IF negative_count > positive_count THEN "negative"
             ELSE "neutral"

----------------------------------------------------------------------------
(* Tokenizer and keyword extraction *)

\* TextPreprocessor.STOPWORDS: one-syllable and two-syllable entries
STOPWORDS == { <<"s">>, <<"s", "s">> }

IsSpace(c) == c = " "

\* \w of the regular expression: letters (and digits, underscore)
IsWordChar(c) == c \in {"g", "b", "G", "B", "p", "q", "s"}

RECURSIVE CollapseSpaces(_)
\* re.sub(r'\s+', ' ', text)
CollapseSpaces(t) ==
    IF Len(t) < 2 THEN t
    ELSE IF IsSpace(t[1]) /\ IsSpace(t[2]) THEN CollapseSpaces(Tail(t))
    ELSE <<t[1]>> \o CollapseSpaces(Tail(t))

\* str.strip() of a text whose whitespace runs are already single spaces
Strip(t) ==
    LET a == IF t # <<>> /\ IsSpace(t[1]) THEN Tail(t) ELSE t
    IN  IF a # <<>> /\ IsSpace(a[Len(a)]) THEN SubSeq(a, 1, Len(a) - 1) ELSE a

\* TextPreprocessor.preprocess
preprocess(t) ==
    IF t = <<>> THEN <<>>
    ELSE LET lowered == Lower(t)
             cleaned == [i \in DOMAIN lowered |->
                            IF IsWordChar(lowered[i]) \/ IsSpace(lowered[i])
                            THEN lowered[i] ELSE " "]
         IN  Strip(CollapseSpaces(cleaned))

RECURSIVE SplitFrom(_, _)
\* str.split(): cur is the word being read
SplitFrom(t, cur) ==
    IF t = <<>> THEN (IF cur = <<>> THEN <<>> ELSE <<cur>>)
    ELSE IF IsSpace(Head(t))
         THEN (IF cur = <<>> THEN <<>> ELSE <<cur>>) \o SplitFrom(Tail(t), <<>>)
         ELSE SplitFrom(Tail(t), Append(cur, Head(t)))

Split(t) == SplitFrom(t, <<>>)

\* TextPreprocessor._tokenize_simple
tokenize_simple(t) ==
    SelectSeq(Split(t), LAMBDA token : token \notin STOPWORDS /\ Len(token) >= 2)

\* TextPreprocessor.tokenize with self.kiwi = None
tokenize(t) == IF t = <<>> THEN <<>> ELSE tokenize_simple(preprocess(t))

\* TextPreprocessor.VALID_POS
VALID_POS == {"NNG", "NNP", "VV", "VA", "XR"}

\* the forms of the morphemes of a valid tag, stopwords and short forms kept
tokenize_with_kiwi_unfiltered(analysis, use_pos_filter) ==
    LET kept == SelectSeq(analysis, LAMBDA token :
                    ~(use_pos_filter /\ token.tag \notin VALID_POS))
    IN  [i \in DOMAIN kept |-> kept[i].form]

\* TextPreprocessor._tokenize_with_kiwi; analysis is the list of morphemes
\* that self.kiwi.tokenize(text) answers
tokenize_with_kiwi(analysis, use_pos_filter) ==
    LET kept == SelectSeq(analysis, LAMBDA token :
                    /\ ~(use_pos_filter /\ token.tag \notin VALID_POS)
                    /\ token.form \notin STOPWORDS
                    /\ Len(token.form) >= 2)
    IN  [i \in DOMAIN kept |-> kept[i].form]

\* TextPreprocessor.tokenize of an instance with or without the analyzer
TextPreprocessor_tokenize(kiwi, text, use_pos_filter, analysis) ==
    IF text = <<>> THEN <<>>
    ELSE IF kiwi THEN tokenize_with_kiwi(analysis, use_pos_filter)
    ELSE tokenize_simple(preprocess(text))

RECURSIVE Distinct(_, _)
\* keys of Counter(tokens), in first-seen order
Distinct(tokens, seen) ==
    IF tokens = <<>> THEN seen
    ELSE IF \E i \in DOMAIN seen : seen[i] = Head(tokens)
         THEN Distinct(Tail(tokens), seen)
         ELSE Distinct(Tail(tokens), Append(seen, Head(tokens)))

Occurrences(tokens, w) == Cardinality({i \in DOMAIN tokens : tokens[i] = w})

RECURSIVE InsertBeforeEqualCount(_, _, _)
\* insertion that puts w in front of the words with w's count
InsertBeforeEqualCount(sorted, w, tokens) ==
    IF sorted = <<>> THEN <<w>>
    ELSE IF Occurrences(tokens, Head(sorted)) > Occurrences(tokens, w)
         THEN <<Head(sorted)>> \o InsertBeforeEqualCount(Tail(sorted), w, tokens)
         ELSE <<w>> \o sorted

RECURSIVE InsertByCount(_, _, _)
\* put w behind every word of sorted that has at least its count
InsertByCount(sorted, w, tokens) ==
    IF sorted = <<>> THEN <<w>>
    ELSE IF Occurrences(tokens, Head(sorted)) >= Occurrences(tokens, w)
         THEN <<Head(sorted)>> \o InsertByCount(Tail(sorted), w, tokens)
         ELSE <<w>> \o sorted

RECURSIVE MostCommonOrder(_, _)
\* Counter.most_common(): descending count, ties in first-seen order
MostCommonOrder(words, tokens) ==
    IF words = <<>> THEN <<>>
    ELSE InsertByCount(MostCommonOrder(SubSeq(words, 1, Len(words) - 1), tokens),
                       words[Len(words)], tokens)

Prefix(s, n) == SubSeq(s, 1, IF Len(s) < n THEN Len(s) ELSE n)

\* extract_keywords without the cut to top_n
extract_keywords_uncapped(t, top_n) ==
    IF t = <<>> THEN <<>>
    ELSE MostCommonOrder(Distinct(tokenize(t), <<>>), tokenize(t))

\* extract_keywords of both engines
extract_keywords(t, top_n) ==
    IF t = <<>> THEN <<>>
    ELSE LET tokens == tokenize(t)
         IN  IF tokens = <<>> THEN <<>>
             ELSE Prefix(MostCommonOrder(Distinct(tokens, <<>>), tokens), top_n)

TOP_N == 10

----------------------------------------------------------------------------
(* Policy entries of a request *)

\* dict.get(key, default) on a policy entry
PolicyGet(policy, key, default) ==
    IF key = "policyName"
    THEN (IF policy.hasName THEN policy.policyName ELSE default)
    ELSE IF key = "description"
    THEN (IF policy.hasDescription THEN policy.description ELSE default)
    ELSE policy.policyId

\* what a client can put at one position of the "policies" array
PolicyBodies ==
    { [dict |-> FALSE, hasName |-> FALSE, policyName |-> <<>>,
       hasDescription |-> FALSE, description |-> <<>>],
      [dict |-> TRUE, hasName |-> TRUE, policyName |-> <<"p">>,
       hasDescription |-> FALSE, description |-> <<>>],
      [dict |-> TRUE, hasName |-> TRUE, policyName |-> <<"q">>,
       hasDescription |-> TRUE, description |-> <<"g">>],
      [dict |-> TRUE, hasName |-> FALSE, policyName |-> <<>>,
       hasDescription |-> TRUE, description |-> <<>>] }

WithId(body, i) ==
    [policyId |-> i, dict |-> body.dict, hasName |-> body.hasName,
     policyName |-> body.policyName, hasDescription |-> body.hasDescription,
     description |-> body.description]

----------------------------------------------------------------------------
(* What the libraries can answer.  ok = FALSE: the call raises.            *)

\* cosine_similarity of two TF-IDF rows: 0.0 .. 1.0
TfidfOutcomes ==
    {[ok |-> TRUE, v |-> s] : s \in 0..SimScale} \cup {[ok |-> FALSE, v |-> 0]}

\* util.cos_sim of two embeddings: -1.0 .. 1.0
KobertOutcomes ==
    {[ok |-> TRUE, v |-> s] : s \in (-SimScale)..SimScale} \cup {[ok |-> FALSE, v |-> 0]}

LibOutcomes(eng) == IF eng = "tfidf" THEN TfidfOutcomes ELSE KobertOutcomes

\* int(): truncation towards zero of num / den, den > 0
IntOf(num, den) == IF num >= 0 THEN num \div den ELSE -((-num) \div den)

Min(a, b) == IF a < b THEN a ELSE b

\* round(similarity, 4), in units of 0.0001
Round4(s) == IntOf(2 * 10000 * s + (IF s >= 0 THEN SimScale ELSE -SimScale), 2 * SimScale)

\* the keywords of the dictionary entry that occur in the combined text
\* every dictionary keyword taken as matched, without the substring test
MatchedKeywords_all(policy_keywords, comments_text) == policy_keywords

MatchedKeywords(policy_keywords, comments_text) ==
    SelectSeq(policy_keywords, LAMBDA keyword : IsSubstring(keyword, comments_text))

----------------------------------------------------------------------------
(* TfidfRecommender *)

\* TfidfRecommender._generate_reason: the list of clauses before the join;
\* the similarity is the float similarity / scale
Tfidf_generate_reason(policy_name, matched_keywords, similarity, scale) ==
    LET band == IF 2 * similarity >= scale THEN <<[clause |-> "high", keywords |-> <<>>]>>
                ELSE IF 10 * similarity >= 3 * scale
                     THEN <<[clause |-> "medium", keywords |-> <<>>]>>
                ELSE <<>>
        kw == IF matched_keywords # <<>>
              THEN <<[clause |-> "keywords", keywords |-> Prefix(matched_keywords, 3)]>>
              ELSE <<>>
        reasons == band \o kw
    IN  IF reasons = <<>> THEN <<[clause |-> "basic", keywords |-> <<>>]>> ELSE reasons

\* TfidfRecommender.calculate_similarity; o is what the vectorizer answers
Tfidf_calculate_similarity(text1, text2, o) ==
    IF text1 = <<>> \/ text2 = <<>>
    THEN [value |-> 0, calls |-> <<>>]
    ELSE [value |-> IF o.ok THEN o.v ELSE 0,
          calls |-> <<[op |-> "fit_transform", arg |-> text2]>>]

\* final_score rounded to the nearest integer instead of cut
Tfidf_final_score_rounded(similarity, matched, total) ==
    IF total = 0
    THEN Min(100, IntOf(100 * similarity + SimScale, 2 * SimScale))
    ELSE Min(100, IntOf(100 * (similarity * total + matched * SimScale) + SimScale * total,
                        2 * SimScale * total))

\* final_score of the lexical engine:
\* min(100, int((sim * 0.5 + keyword_score * 0.5) * 100))
Tfidf_final_score(similarity, matched, total) ==
    IF total = 0
    THEN Min(100, IntOf(50 * similarity, SimScale))
    ELSE Min(100, IntOf(50 * (similarity * total + matched * SimScale), SimScale * total))

\* TfidfRecommender._match_policy
Tfidf_match_policy(comments_text, policy, o) ==
    IF ~policy.dict
    THEN [raised |-> TRUE, calls |-> <<>>]
    ELSE LET policy_name == PolicyGet(policy, "policyName", <<>>)
             policy_description == PolicyGet(policy, "description", policy_name)
             policy_keywords == POLICY_KEYWORDS_get(policy_name)
             sim == Tfidf_calculate_similarity(comments_text, policy_description, o)
             matched_keywords == MatchedKeywords(policy_keywords, comments_text)
         IN  [raised |-> FALSE, calls |-> sim.calls,
              rec |-> [policyId |-> PolicyGet(policy, "policyId", 0),
                       policyName |-> policy_name,
                       matchScore |-> Tfidf_final_score(sim.value, Len(matched_keywords),
                                                        Len(policy_keywords)),
                       similarityScore |-> Round4(sim.value),
                       reason |-> Tfidf_generate_reason(policy_name, matched_keywords,
                                                        sim.value, SimScale),
                       keywords |-> matched_keywords]]

----------------------------------------------------------------------------
(* KoBertRecommender *)

\* KoBertRecommender._generate_reason: the list of clauses before the join;
\* the similarity is the float similarity / scale
Kobert_generate_reason(policy_name, matched_keywords, similarity, scale) ==
    LET band == IF 2 * similarity >= scale THEN <<[clause |-> "high", keywords |-> <<>>]>>
                ELSE IF 10 * similarity >= 3 * scale
                     THEN <<[clause |-> "medium", keywords |-> <<>>]>>
                ELSE IF 10 * similarity >= scale
                     THEN <<[clause |-> "weak", keywords |-> <<>>]>>
                ELSE <<>>
        kw == IF matched_keywords # <<>>
              THEN <<[clause |-> "keywords", keywords |-> Prefix(matched_keywords, 3)]>>
              ELSE <<>>
        reasons == band \o kw
    IN  IF reasons = <<>> THEN <<[clause |-> "basic", keywords |-> <<>>]>> ELSE reasons

\* final_score without the normalisation of the similarity to 0..1
Kobert_final_score_raw(similarity, matched, total) ==
    IF total = 0
    THEN Min(100, IntOf(70 * similarity, SimScale))
    ELSE Min(100, IntOf(70 * similarity * total + 30 * matched * SimScale, SimScale * total))

\* The inputs for which (normalized * 0.7 + keyword_score * 0.3) * 100, computed
\* in IEEE double arithmetic as Python does, lands just below the integer that
\* is its exact value, so that int() gives one less: 0.7 and 0.3 are no binary
\* fractions.  The table holds for similarities that are multiples of 1/2 and
\* dictionary entries of up to 8 keywords; it reads (similarity, keyword_score):
\* (0, 1/3) (0, 2/3) (0, 1) (1/2, 1/4) (1/2, 3/4) (1, 3/5) (1, 2/3).
\* The expression of the lexical engine has no such input.
DoubleLandsBelow(similarity, matched, total) ==
    /\ total > 0
    /\ \/ /\ similarity = 0
          /\ (3 * matched = total \/ 3 * matched = 2 * total \/ matched = total)
       \/ /\ 2 * similarity = SimScale
          /\ (4 * matched = total \/ 4 * matched = 3 * total)
       \/ /\ similarity = SimScale
          /\ (5 * matched = 3 * total \/ 3 * matched = 2 * total)

\* final_score of the embedding engine:
\* min(100, int(((sim + 1) / 2 * 0.7 + keyword_score * 0.3) * 100))
Kobert_final_score(similarity, matched, total) ==
    LET exact == IF total = 0
                 THEN IntOf(35 * (similarity + SimScale), SimScale)
                 ELSE IntOf(35 * (similarity + SimScale) * total
                                + 30 * matched * SimScale, SimScale * total)
    IN  Min(100, IF DoubleLandsBelow(similarity, matched, total)
                 THEN exact - 1 ELSE exact)

\* KoBertRecommender._match_policy; o is what model.encode / cos_sim answer
Kobert_match_policy(comments_text, policy, o) ==
    IF ~policy.dict
    THEN [raised |-> TRUE, calls |-> <<>>]
    ELSE LET policy_name == PolicyGet(policy, "policyName", <<>>)
             policy_description == PolicyGet(policy, "description", policy_name)
             policy_keywords == POLICY_KEYWORDS_get(policy_name)
             policy_text == policy_name \o <<".", " ">> \o policy_description
             encode == <<[op |-> "encode", arg |-> policy_text]>>
             matched_keywords == MatchedKeywords(policy_keywords, comments_text)
         IN  IF ~o.ok
             THEN [raised |-> TRUE, calls |-> encode]
             ELSE [raised |-> FALSE, calls |-> encode,
                   rec |-> [policyId |-> PolicyGet(policy, "policyId", 0),
                            policyName |-> policy_name,
                            matchScore |-> Kobert_final_score(o.v, Len(matched_keywords),
                                                              Len(policy_keywords)),
                            similarityScore |-> Round4(o.v),
                            reason |-> Kobert_generate_reason(policy_name, matched_keywords,
                                                              o.v, SimScale),
                            keywords |-> matched_keywords]]

----------------------------------------------------------------------------
(* Orchestration shared by the two analyze methods *)

\* the result of the empty-input branch, given a skipReason as well
EmptyResult_with_reason ==
    [recommendations |-> <<>>, extractedKeywords |-> <<>>,
     overallSentiment |-> "neutral", skipReason |-> SKIP_REASON]

\* if not comments or not policies: return {...}
EmptyResult ==
    [recommendations |-> <<>>, extractedKeywords |-> <<>>, overallSentiment |-> "neutral"]

\* the empty-input test with "and" in place of "or"
IsEmptyInput_and(cs, ps) == cs = <<>> /\ ps = <<>>

\* not comments or not policies
IsEmptyInput(cs, ps) == cs = <<>> \/ ps = <<>>

\* the veto test comparing with the wrong verdict
IsVetoed_positive(sentiment_) == sentiment_ = "positive"

\* if sentiment == "negative"
IsVetoed(sentiment_) == sentiment_ = "negative"

\* the veto branch returning the keyword list of the empty-input branch
VetoResult_no_keywords(keywords, sentiment_) ==
    [recommendations |-> <<>>, extractedKeywords |-> <<>>,
     overallSentiment |-> sentiment_, skipReason |-> SKIP_REASON]

\* the returned dict of the veto branch
VetoResult(keywords, sentiment_) ==
    [recommendations |-> <<>>, extractedKeywords |-> keywords,
     overallSentiment |-> sentiment_, skipReason |-> SKIP_REASON]

\* the threshold test with > in place of >=
MeetsThreshold_strict(recommendation) == recommendation.matchScore > min_match_score

\* recommendation["matchScore"] >= RECOMMENDATION_CONFIG["min_match_score"]
MeetsThreshold(recommendation) == recommendation.matchScore >= min_match_score

RECURSIVE InsertAscending(_, _)
\* insertion that yields ascending order (reverse left out)
InsertAscending(sorted, r) ==
    IF sorted = <<>> THEN <<r>>
    ELSE IF Head(sorted).matchScore <= r.matchScore
         THEN <<Head(sorted)>> \o InsertAscending(Tail(sorted), r)
         ELSE <<r>> \o sorted

RECURSIVE InsertBeforeTies(_, _)
\* insertion that puts r in front of the elements with r's matchScore
InsertBeforeTies(sorted, r) ==
    IF sorted = <<>> THEN <<r>>
    ELSE IF Head(sorted).matchScore > r.matchScore
         THEN <<Head(sorted)>> \o InsertBeforeTies(Tail(sorted), r)
         ELSE <<r>> \o sorted

RECURSIVE InsertByScore(_, _)
\* put r behind every element of sorted whose matchScore is at least r's
InsertByScore(sorted, r) ==
    IF sorted = <<>> THEN <<r>>
    ELSE IF Head(sorted).matchScore >= r.matchScore
         THEN <<Head(sorted)>> \o InsertByScore(Tail(sorted), r)
         ELSE <<r>> \o sorted

RECURSIVE SortByMatchScore(_)
\* recommendations.sort(key=lambda x: x["matchScore"], reverse=True): stable
SortByMatchScore(recs) ==
    IF recs = <<>> THEN <<>>
    ELSE InsertByScore(SortByMatchScore(SubSeq(recs, 1, Len(recs) - 1)), recs[Len(recs)])

\* the cap applied to the list before it is sorted
Rank_cap_first(kept, max_recs) == SortByMatchScore(Prefix(kept, max_recs))

\* sort, then recommendations[:max_recs]
Rank(kept, max_recs) == Prefix(SortByMatchScore(kept), max_recs)

NoResult == [overallSentiment |-> "none"]

----------------------------------------------------------------------------
(* The state machine *)

Chars == {"g", "b"}

\* texts of at most n characters over the alphabet cs
RECURSIVE TextsUpTo(_, _)
TextsUpTo(cs, n) ==
    IF n = 0 THEN { <<>> }
    ELSE LET shorter == TextsUpTo(cs, n - 1)
         IN  shorter \cup {Append(t, c) : t \in shorter, c \in cs}

RECURSIVE TotalLen(_)
TotalLen(texts) == IF texts = <<>> THEN 0 ELSE Len(Head(texts)) + TotalLen(Tail(texts))

\* the comment lists a caller can pass
CommentLists ==
    UNION { {cs \in [1..n -> TextsUpTo(Chars, MaxChars)] : TotalLen(cs) <= MaxChars}
            : n \in 0..MaxComments }

\* the policy lists a caller can pass; the client numbers its policies
PolicyLists ==
    UNION { {[i \in 1..k |-> WithId(bodies[i], i)] : bodies \in [1..k -> PolicyBodies]}
            : k \in 0..MaxPolicies }

\* the alphabet of the texts given to analyze_sentiment directly
SentimentChars == {"g", "B", " "}

\* the words a sentiment word list is made of
SentimentWords == { <<"g">>, <<"b">>, <<"g", "b">> }

WordLists == UNION { [1..n -> SentimentWords] : n \in 0..MaxWords }

\* no direct run of the score fusion is under way
FusionIdle ==
    /\ fEngine = "tfidf"
    /\ fSimilarity = 0
    /\ fMatched = 0
    /\ fTotal = 0
    /\ fpc = "idle"
    /\ fScore = 0

Threads == 1..NumThreads

\* no request thread has asked for the engine
InstanceIdle ==
    /\ recommenderInstance = 0
    /\ constructions = 0
    /\ rpc = [t \in Threads |-> "idle"]
    /\ rendpoint = [t \in Threads |-> "none"]
    /\ rused = [t \in Threads |-> 0]

\* no direct call of _generate_reason
ReasonIdle ==
    /\ gEngine = "tfidf"
    /\ gSimilarity = 0
    /\ gMatched = <<>>
    /\ gpc = "idle"
    /\ gReason = <<>>

\* no direct call of tokenize
TokenizerIdle ==
    /\ tkKiwi = FALSE
    /\ tkText = <<>>
    /\ tkUsePosFilter = TRUE
    /\ tkAnalysis = <<>>
    /\ tkpc = "idle"
    /\ tkTokens = <<>>

\* the chatbot has not been asked
ChatIdle ==
    /\ knowledgeBase = FALSE
    /\ chat_history = <<>>
    /\ user_message = <<>>
    /\ cpc = "idle"
    /\ answer = <<>>
    /\ chatResult = "none"
    /\ historyBefore = <<>>

LateIdle == ReasonIdle /\ TokenizerIdle /\ ChatIdle

MoreIdle == FusionIdle /\ InstanceIdle /\ LateIdle

NoResponse == [status |-> 0, kind |-> "none"]

\* no request is in hand; the engine is the one the configuration names
HttpIdle ==
    /\ RECOMMENDER_TYPE = recommender
    /\ endpoint = "none"
    /\ hpc = "idle"
    /\ data = "none"
    /\ response = NoResponse

\* the vectorizer as __init__ built it, and no thread inside calculate_similarity
VectorizerIdle ==
    /\ idf_ = <<>>
    /\ tpc = [t \in Threads |-> "idle"]
    /\ targs = [t \in Threads |-> << <<>>, <<>> >>]
    /\ tX = [t \in Threads |-> <<>>]
    /\ tres = [t \in Threads |-> 0]
    /\ tbefore = [t \in Threads |-> <<>>]

\* no direct extract_keywords call is under way
KeywordsIdle ==
    /\ kwText = <<>>
    /\ kwTopN = 0
    /\ kwpc = "returned"
    /\ kwResult = <<>>

Init ==
    /\ max_recommendations \in 1..MaxRecs
    /\ recommender \in {"tfidf", "kobert"}
    /\ pc = "idle"
    /\ comments = <<>>
    /\ policies = <<>>
    /\ combined_comments = <<>>
    /\ extracted_keywords = <<>>
    /\ sentiment = "unset"
    /\ recommendations = <<>>
    /\ outcome = "none"
    /\ result = NoResult
    /\ scored = <<>>
    /\ modelCalls = <<>>
    /\ failedAt = 0
    /\ argText = <<>>
    /\ argPositive = <<>>
    /\ argNegative = <<>>
    /\ verdict = "unset"
    /\ KeywordsIdle
    /\ min_df = 1
    /\ VectorizerIdle
    /\ HttpIdle
    /\ MoreIdle

\* a caller enters recommender.analyze(comments, policies)
Call ==
    /\ pc = "idle"
    /\ comments' \in CommentLists
    /\ policies' \in PolicyLists
    /\ pc' = "entered"
    /\ UNCHANGED <<config, locals, outcome, result, scored, modelCalls, failedAt,
                   directVars, otherVars>>

\* analyze, first branch: an empty argument is answered at once
ReturnEmpty ==
    /\ pc = "entered"
    /\ IsEmptyInput(comments, policies)
    /\ pc' = "done"
    /\ outcome' = "returned"
    /\ result' = EmptyResult
    /\ UNCHANGED <<config, comments, policies, locals, scored, modelCalls, failedAt,
                   directVars, otherVars>>

\* analyze up to the sentiment gate: join the comments, extract the keywords,
\* take the verdict; a negative verdict returns, otherwise the loop is next
\* (the embedding engine first encodes the combined comments, which can raise)
Prepare ==
    /\ pc = "entered"
    /\ ~IsEmptyInput(comments, policies)
    /\ LET joined == join_texts(comments)
           keywords == extract_keywords(joined, TOP_N)
           s == analyze_sentiment(joined, SENTIMENT_KEYWORDS.positive,
                                  SENTIMENT_KEYWORDS.negative)
       IN  /\ combined_comments' = joined
           /\ extracted_keywords' = keywords
           /\ sentiment' = s
           /\ IF IsVetoed(s)
              THEN /\ pc' = "done"
                   /\ outcome' = "returned"
                   /\ result' = VetoResult(keywords, s)
                   /\ UNCHANGED modelCalls
              ELSE IF recommender = "kobert"
              THEN \E encodeOk \in BOOLEAN :
                     /\ modelCalls' = Append(modelCalls, [op |-> "encode", arg |-> joined])
                     /\ pc' = IF encodeOk THEN "loop" ELSE "done"
                     /\ outcome' = IF encodeOk THEN outcome ELSE "raised"
                     /\ UNCHANGED result
              ELSE /\ pc' = "loop"
                   /\ UNCHANGED <<outcome, result, modelCalls>>
    /\ UNCHANGED <<config, comments, policies, recommendations, scored, failedAt,
                   directVars, otherVars>>

\* one turn of "for policy in policies": score the next policy and keep it if
\* it reaches the threshold; an exception of _match_policy leaves analyze
MatchNext ==
    /\ pc = "loop"
    /\ Len(scored) < Len(policies)
    /\ \E o \in LibOutcomes(recommender) :
          LET policy == policies[Len(scored) + 1]
              m == IF recommender = "tfidf"
                   THEN Tfidf_match_policy(combined_comments, policy, o)
                   ELSE Kobert_match_policy(combined_comments, policy, o)
          IN  /\ modelCalls' = modelCalls \o m.calls
              /\ IF m.raised
                 THEN /\ pc' = "done"
                      /\ outcome' = "raised"
                      /\ failedAt' = Len(scored) + 1
                      /\ UNCHANGED <<scored, recommendations>>
                 ELSE /\ scored' = Append(scored, m.rec)
                      /\ recommendations' = IF MeetsThreshold(m.rec)
                                             THEN Append(recommendations, m.rec)
                                             ELSE recommendations
                      /\ UNCHANGED <<pc, outcome, failedAt>>
    /\ UNCHANGED <<config, comments, policies, combined_comments, extracted_keywords,
                   sentiment, result, directVars, otherVars>>

\* after the loop: sort, cut to max_recommendations, return
RankAndReturn ==
    /\ pc = "loop"
    /\ Len(scored) = Len(policies)
    /\ pc' = "done"
    /\ outcome' = "returned"
    /\ recommendations' = Rank(recommendations, max_recommendations)
    /\ result' = [recommendations |-> recommendations',
                  extractedKeywords |-> extracted_keywords,
                  overallSentiment |-> sentiment]
    /\ UNCHANGED <<config, comments, policies, combined_comments, extracted_keywords,
                   sentiment, scored, modelCalls, failedAt, directVars, otherVars>>

\* the caller has consumed the result; the engine waits for the next call
Finish ==
    /\ pc = "done"
    /\ pc' = "idle"
    /\ comments' = <<>>
    /\ policies' = <<>>
    /\ combined_comments' = <<>>
    /\ extracted_keywords' = <<>>
    /\ sentiment' = "unset"
    /\ recommendations' = <<>>
    /\ outcome' = "none"
    /\ result' = NoResult
    /\ scored' = <<>>
    /\ modelCalls' = <<>>
    /\ failedAt' = 0
    /\ UNCHANGED <<config, directVars, otherVars>>

Next == Call \/ ReturnEmpty \/ Prepare \/ MatchNext \/ RankAndReturn \/ Finish

Spec == Init /\ [][Next]_vars

----------------------------------------------------------------------------
(* analyze_sentiment called on its own, on every text and word list *)

InitSentiment ==
    /\ max_recommendations = 1
    /\ recommender = "tfidf"
    /\ pc = "idle"
    /\ comments = <<>>
    /\ policies = <<>>
    /\ combined_comments = <<>>
    /\ extracted_keywords = <<>>
    /\ sentiment = "unset"
    /\ recommendations = <<>>
    /\ outcome = "none"
    /\ result = NoResult
    /\ scored = <<>>
    /\ modelCalls = <<>>
    /\ failedAt = 0
    /\ argText \in TextsUpTo(SentimentChars, MaxTextLen)
    /\ argPositive \in WordLists
    /\ argNegative \in WordLists
    /\ verdict = "unset"
    /\ KeywordsIdle
    /\ min_df = 1
    /\ VectorizerIdle
    /\ HttpIdle
    /\ MoreIdle

ApplySentiment ==
    /\ verdict = "unset"
    /\ verdict' = analyze_sentiment(argText, argPositive, argNegative)
    /\ UNCHANGED <<config, pc, comments, policies, locals, outcome, result, scored,
                   modelCalls, failedAt, argText, argPositive, argNegative,
                   otherVars>>

NextSentiment == ApplySentiment

SpecSentiment == InitSentiment /\ [][NextSentiment]_vars

----------------------------------------------------------------------------
(* extract_keywords called on its own, on every text and every top_n >= 0 *)

\* the alphabet of the texts given to extract_keywords directly
KeywordChars == {"g", "b", " "}

\* no analyze call is under way
AnalyzeIdle ==
    /\ pc = "idle"
    /\ comments = <<>>
    /\ policies = <<>>
    /\ combined_comments = <<>>
    /\ extracted_keywords = <<>>
    /\ sentiment = "unset"
    /\ recommendations = <<>>
    /\ outcome = "none"
    /\ result = NoResult
    /\ scored = <<>>
    /\ modelCalls = <<>>
    /\ failedAt = 0

\* no direct analyze_sentiment call is under way
SentimentIdle ==
    /\ argText = <<>>
    /\ argPositive = <<>>
    /\ argNegative = <<>>
    /\ verdict = "unset"

InitKeywords ==
    /\ max_recommendations = 1
    /\ recommender \in {"tfidf", "kobert"}
    /\ AnalyzeIdle
    /\ SentimentIdle
    /\ kwText \in TextsUpTo(KeywordChars, MaxKeywordLen)
    /\ kwTopN \in 0..MaxTopN
    /\ kwpc = "called"
    /\ kwResult = <<>>
    /\ min_df = 1
    /\ VectorizerIdle
    /\ HttpIdle
    /\ MoreIdle

\* recommender.extract_keywords(text, top_n) runs and returns
ApplyExtractKeywords ==
    /\ kwpc = "called"
    /\ kwResult' = extract_keywords(kwText, kwTopN)
    /\ kwpc' = "returned"
    /\ UNCHANGED <<config, pc, comments, policies, locals, outcome, result, scored,
                   modelCalls, failedAt, directVars, kwText, kwTopN, vectorizerVars,
                   httpVars, moreVars>>

NextKeywords == ApplyExtractKeywords

SpecKeywords == InitKeywords /\ [][NextKeywords]_vars

----------------------------------------------------------------------------
(* TfidfRecommender.calculate_similarity on the one shared self.vectorizer.   *)
(* TfidfVectorizer.fit_transform(docs) counts the terms of the two documents  *)
(* (local to the call), fits the idf weights of the vectorizer's transformer  *)
(* (a write on the shared object) and then weights the counts with the idf    *)
(* the transformer holds (a read of the shared object).                       *)

\* alphabetical order of characters and of terms (the vocabulary is sorted)
CharRank(c) == IF c = " " THEN 0 ELSE IF c = "b" THEN 1 ELSE 2

RECURSIVE TermLess(_, _)
TermLess(a, b) ==
    IF b = <<>> THEN FALSE
    ELSE IF a = <<>> THEN TRUE
    ELSE IF Head(a) # Head(b) THEN CharRank(Head(a)) < CharRank(Head(b))
    ELSE TermLess(Tail(a), Tail(b))

RECURSIVE SortTerms(_)
SortTerms(terms) ==
    IF terms = {} THEN <<>>
    ELSE LET first == CHOOSE a \in terms : \A b \in terms \ {a} : TermLess(a, b)
         IN  <<first>> \o SortTerms(terms \ {first})

\* ngram_range = (1, 2): the tokens, then the pairs of neighbours joined by " "
Ngrams(tokens) ==
    tokens \o [i \in 1..(Len(tokens) - 1) |-> tokens[i] \o <<" ">> \o tokens[i + 1]]

\* the analyzer of the vectorizer: the custom tokenizer, then the n-grams
DocTerms(t) == Ngrams(tokenize(t))

\* the terms that stay in the vocabulary: those in at least min_df documents
Vocabulary(docs, min_df_) ==
    LET termsOf(d) == {DocTerms(docs[d])[i] : i \in DOMAIN DocTerms(docs[d])}
        df(term) == Cardinality({d \in DOMAIN docs : term \in termsOf(d)})
    IN  SortTerms({term \in UNION {termsOf(d) : d \in DOMAIN docs} : df(term) >= min_df_})

\* CountVectorizer.fit_transform: the term counts, one row per document;
\* ValueError when no term remains
CountVectorize(docs, min_df_) ==
    LET vocabulary_ == Vocabulary(docs, min_df_)
    IN  IF vocabulary_ = <<>>
        THEN [ok |-> FALSE, X |-> <<>>]
        ELSE [ok |-> TRUE,
              X |-> [d \in DOMAIN docs |->
                       [j \in DOMAIN vocabulary_ |->
                          Occurrences(DocTerms(docs[d]), vocabulary_[j])]]]

\* TfidfTransformer.fit: idf = ln((1 + n) / (1 + df)) + 1 with n = 2 documents:
\* 1.0 for a term of both documents and 1.405 for a term of one, kept as the
\* integers 5 and 7 (the ratio 1.4; only ratios of weights enter a cosine)
FitIdf(X) ==
    [j \in DOMAIN X[1] |->
        IF Cardinality({d \in DOMAIN X : X[d][j] > 0}) = 2 THEN 5 ELSE 7]

\* a fit that keeps the weights of an earlier fit
FitState_keep(old, X) == IF old = <<>> THEN FitIdf(X) ELSE old

\* what self.vectorizer holds after fit: every fit replaces the earlier weights
FitState(old, X) == FitIdf(X)

RECURSIVE SumTo(_, _)
SumTo(f, n) == IF n = 0 THEN 0 ELSE f[n] + SumTo(f, n - 1)

\* cosine_similarity of the two weighted rows, rounded down to 1 / CosScale
Cosine(u, v) ==
    LET n == Len(u)
        dot == SumTo([j \in 1..n |-> u[j] * v[j]], n)
        uu == SumTo([j \in 1..n |-> u[j] * u[j]], n)
        vv == SumTo([j \in 1..n |-> v[j] * v[j]], n)
    IN  IF uu = 0 \/ vv = 0 THEN 0
        ELSE CHOOSE k \in 0..CosScale :
                /\ k * k * uu * vv <= CosScale * CosScale * dot * dot
                /\ (k = CosScale
                    \/ (k + 1) * (k + 1) * uu * vv > CosScale * CosScale * dot * dot)

\* TfidfTransformer.transform with the weights idf, then cosine_similarity;
\* ValueError when the matrix has another number of columns than idf
TransformAndCompare(idf, X) ==
    IF Len(idf) # Len(X[1])
    THEN [ok |-> FALSE, value |-> 0]
    ELSE [ok |-> TRUE,
          value |-> Cosine([j \in DOMAIN idf |-> X[1][j] * idf[j]],
                           [j \in DOMAIN idf |-> X[2][j] * idf[j]])]

\* calculate_similarity on a vectorizer no other call touches
SoloSimilarity(text1, text2, min_df_) ==
    IF text1 = <<>> \/ text2 = <<>> THEN 0
    ELSE LET counted == CountVectorize(<<text1, text2>>, min_df_)
         IN  IF ~counted.ok THEN 0
             ELSE LET r == TransformAndCompare(FitIdf(counted.X), counted.X)
                  IN  IF r.ok THEN r.value ELSE 0

\* the texts the threads pass
VectorizerTexts ==
    { <<>>, <<"g", "g">>, <<"b", "b">>, <<"g", "g", " ", "b", "b">> }

InitVectorizer ==
    /\ max_recommendations = 1
    /\ recommender = "tfidf"
    /\ AnalyzeIdle
    /\ SentimentIdle
    /\ KeywordsIdle
    /\ min_df \in {1, 2}
    /\ VectorizerIdle
    /\ HttpIdle
    /\ MoreIdle

\* thread t enters calculate_similarity: the empty-text test, then the first
\* part of fit_transform, which works on the arguments only
VecCall(t) ==
    /\ tpc[t] = "idle"
    /\ \E text1 \in VectorizerTexts, text2 \in VectorizerTexts :
          LET counted == CountVectorize(<<text1, text2>>, min_df)
          IN  /\ targs' = [targs EXCEPT ![t] = <<text1, text2>>]
              /\ tbefore' = [tbefore EXCEPT ![t] = idf_]
              /\ IF text1 = <<>> \/ text2 = <<>> \/ ~counted.ok
                 THEN /\ tpc' = [tpc EXCEPT ![t] = "done"]
                      /\ tres' = [tres EXCEPT ![t] = 0]
                      /\ UNCHANGED tX
                 ELSE /\ tpc' = [tpc EXCEPT ![t] = "counted"]
                      /\ tX' = [tX EXCEPT ![t] = counted.X]
                      /\ UNCHANGED tres
    /\ UNCHANGED <<min_df, idf_>>

\* fit_transform, second part: the transformer is fitted on the counts
VecFit(t) ==
    /\ tpc[t] = "counted"
    /\ idf_' = FitState(idf_, tX[t])
    /\ tpc' = [tpc EXCEPT ![t] = "fitted"]
    /\ UNCHANGED <<min_df, targs, tX, tres, tbefore>>

\* fit_transform, last part, and cosine_similarity; an exception gives 0.0
VecTransform(t) ==
    /\ tpc[t] = "fitted"
    /\ LET r == TransformAndCompare(idf_, tX[t])
       IN  tres' = [tres EXCEPT ![t] = IF r.ok THEN r.value ELSE 0]
    /\ tpc' = [tpc EXCEPT ![t] = "done"]
    /\ UNCHANGED <<min_df, idf_, targs, tX, tbefore>>

\* the caller of thread t has taken the value
VecReturn(t) ==
    /\ tpc[t] = "done"
    /\ tpc' = [tpc EXCEPT ![t] = "idle"]
    /\ targs' = [targs EXCEPT ![t] = << <<>>, <<>> >>]
    /\ tX' = [tX EXCEPT ![t] = <<>>]
    /\ tres' = [tres EXCEPT ![t] = 0]
    /\ tbefore' = [tbefore EXCEPT ![t] = <<>>]
    /\ UNCHANGED <<min_df, idf_>>

VecStep(t) ==
    /\ (VecCall(t) \/ VecFit(t) \/ VecTransform(t) \/ VecReturn(t))
    /\ UNCHANGED <<config, pc, comments, policies, locals, outcome, result, scored,
                   modelCalls, failedAt, directVars, keywordVars, httpVars,
                   moreVars>>

\* request threads of the server call the one engine at the same time
NextConcurrent == \E t \in Threads : VecStep(t)

SpecConcurrent == InitVectorizer /\ [][NextConcurrent]_vars

\* one caller: a call begins only after the call before it has returned
NextSequential == VecStep(1)

SpecSequential == InitVectorizer /\ [][NextSequential]_vars

----------------------------------------------------------------------------
(* The routes of src/gyu/routes.py in front of the engine.  The module is    *)
(* imported by create_app with _recommender = None; the engine is built by   *)
(* get_recommender_instance inside the first handler that asks for it.       *)

\* what get_recommender() can do: the engine it returns, or an exception.
\* KoBertRecommender() loads the pretrained model, which can succeed, raise
\* ImportError (caught: the lexical engine is returned) or raise another error
get_recommender(recommender_type) ==
    IF recommender_type = "kobert"
    THEN { [raised |-> FALSE, engine |-> "kobert"],
           [raised |-> FALSE, engine |-> "tfidf"],
           [raised |-> TRUE, engine |-> "none"] }
    ELSE { [raised |-> FALSE, engine |-> "tfidf"] }

\* get_recommender_instance(): the engine in _recommender, built when it is None
get_recommender_instance(_recommender, recommender_type) ==
    IF _recommender = "none"
    THEN get_recommender(recommender_type)
    ELSE { [raised |-> FALSE, engine |-> _recommender] }

InitHttp ==
    /\ max_recommendations = MaxRecs
    /\ recommender = "none"
    /\ AnalyzeIdle
    /\ SentimentIdle
    /\ KeywordsIdle
    /\ min_df = 1
    /\ VectorizerIdle
    /\ RECOMMENDER_TYPE \in {"tfidf", "kobert"}
    /\ endpoint = "none"
    /\ hpc = "idle"
    /\ data = "none"
    /\ response = NoResponse
    /\ MoreIdle

\* GET /gyu/reward/health arrives
ReceiveHealth ==
    /\ hpc = "idle"
    /\ endpoint' = "health"
    /\ hpc' = "instance"
    /\ UNCHANGED <<config, pc, comments, policies, locals, outcome, result, scored,
                   modelCalls, failedAt, directVars, keywordVars, vectorizerVars, moreVars,
                   RECOMMENDER_TYPE, data, response>>

\* POST /gyu/reward/recommend arrives: the handler up to get_recommender_instance
ReceiveRecommend ==
    /\ hpc = "idle"
    /\ endpoint' = "recommend"
    /\ \E body \in {"none", "dict", "list"} :
       \E cs \in CommentLists, ps \in PolicyLists :
          /\ body # "dict" => (cs = <<>> /\ ps = <<>>)
          /\ data' = body
          /\ comments' = cs
          /\ policies' = ps
          /\ IF body = "none"
             THEN /\ response' = [status |-> 400, kind |-> "no data"]
                  /\ hpc' = "responded"
             ELSE IF body = "list"
             THEN /\ response' = [status |-> 500, kind |-> "exception"]
                  /\ hpc' = "responded"
             ELSE IF cs = <<>>
             THEN /\ response' = [status |-> 400, kind |-> "no comments"]
                  /\ hpc' = "responded"
             ELSE IF ps = <<>>
             THEN /\ response' = [status |-> 400, kind |-> "no policies"]
                  /\ hpc' = "responded"
             ELSE IF \E i \in DOMAIN ps : ~ps[i].dict
             THEN /\ response' = [status |-> 500, kind |-> "exception"]
                  /\ hpc' = "responded"
             ELSE /\ hpc' = "instance"
                  /\ UNCHANGED response
    /\ UNCHANGED <<config, pc, locals, outcome, result, scored, modelCalls, failedAt,
                   directVars, keywordVars, vectorizerVars, moreVars, RECOMMENDER_TYPE>>

\* POST /gyu/reward/keywords arrives: the handler up to get_recommender_instance
ReceiveKeywords ==
    /\ hpc = "idle"
    /\ endpoint' = "keywords"
    /\ \E body \in {"none", "dict"}, t \in TextsUpTo(Chars, MaxChars) :
          /\ body = "none" => t = <<>>
          /\ data' = body
          /\ kwText' = t
          /\ IF body = "none"
             THEN /\ response' = [status |-> 500, kind |-> "exception"]
                  /\ hpc' = "responded"
             ELSE IF t = <<>>
             THEN /\ response' = [status |-> 400, kind |-> "no text"]
                  /\ hpc' = "responded"
             ELSE /\ hpc' = "instance"
                  /\ UNCHANGED response
    /\ UNCHANGED <<config, pc, comments, policies, locals, outcome, result, scored,
                   modelCalls, failedAt, directVars, kwTopN, kwpc, kwResult,
                   vectorizerVars, moreVars, RECOMMENDER_TYPE>>

\* the handler calls get_recommender_instance() and goes on with the engine:
\* health answers, keywords extracts and answers, recommend enters analyze
GetInstance ==
    /\ hpc = "instance"
    /\ \E got \in get_recommender_instance(recommender, RECOMMENDER_TYPE) :
          IF got.raised
          THEN /\ response' = [status |-> 500, kind |-> "engine not built"]
               /\ hpc' = "responded"
               /\ UNCHANGED <<recommender, pc, kwResult>>
          ELSE /\ recommender' = got.engine
               /\ IF endpoint = "recommend"
                  THEN /\ pc' = "entered"
                       /\ hpc' = "engine"
                       /\ UNCHANGED <<response, kwResult>>
                  ELSE /\ response' = [status |-> 200, kind |-> "success"]
                       /\ hpc' = "responded"
                       /\ kwResult' = IF endpoint = "keywords"
                                      THEN extract_keywords(kwText, TOP_N)
                                      ELSE kwResult
                       /\ UNCHANGED pc
    /\ UNCHANGED <<max_recommendations, comments, policies, locals, outcome, result,
                   scored, modelCalls, failedAt, directVars, kwText, kwTopN, kwpc,
                   vectorizerVars, moreVars, RECOMMENDER_TYPE, endpoint, data>>

\* recommend: analyze has returned or raised; the handler answers
RespondRecommend ==
    /\ hpc = "engine"
    /\ pc = "done"
    /\ response' = IF outcome = "returned"
                   THEN [status |-> 200, kind |-> "success"]
                   ELSE [status |-> 500, kind |-> "exception"]
    /\ hpc' = "responded"
    /\ UNCHANGED <<config, pc, comments, policies, locals, outcome, result, scored,
                   modelCalls, failedAt, directVars, keywordVars, vectorizerVars, moreVars,
                   RECOMMENDER_TYPE, endpoint, data>>

\* the response has left; the next request can arrive
Complete ==
    /\ hpc = "responded"
    /\ hpc' = "idle"
    /\ endpoint' = "none"
    /\ data' = "none"
    /\ response' = NoResponse
    /\ pc' = "idle"
    /\ comments' = <<>>
    /\ policies' = <<>>
    /\ combined_comments' = <<>>
    /\ extracted_keywords' = <<>>
    /\ sentiment' = "unset"
    /\ recommendations' = <<>>
    /\ outcome' = "none"
    /\ result' = NoResult
    /\ scored' = <<>>
    /\ modelCalls' = <<>>
    /\ failedAt' = 0
    /\ kwText' = <<>>
    /\ kwResult' = <<>>
    /\ UNCHANGED <<config, directVars, kwTopN, kwpc, vectorizerVars, moreVars, RECOMMENDER_TYPE>>

NextHttp ==
    \/ ReceiveHealth
    \/ ReceiveRecommend
    \/ ReceiveKeywords
    \/ GetInstance
    \/ Prepare
    \/ MatchNext
    \/ RankAndReturn
    \/ RespondRecommend
    \/ Complete

SpecHttp == InitHttp /\ [][NextHttp]_vars

----------------------------------------------------------------------------
(* The score fusion of _match_policy run on its own, on every similarity of  *)
(* the strategy's range and every count of matched and dictionary keywords   *)

InitFusion ==
    /\ max_recommendations = 1
    /\ recommender = "tfidf"
    /\ AnalyzeIdle
    /\ SentimentIdle
    /\ KeywordsIdle
    /\ min_df = 1
    /\ VectorizerIdle
    /\ HttpIdle
    /\ fEngine \in {"tfidf", "kobert"}
    /\ fSimilarity \in (IF fEngine = "tfidf" THEN 0..SimScale ELSE (-SimScale)..SimScale)
    /\ fTotal \in 0..MaxDictKeywords
    /\ fMatched \in 0..fTotal
    /\ fpc = "called"
    /\ fScore = 0
    /\ InstanceIdle
    /\ LateIdle

\* final_score = ...; final_score = min(100, int(final_score))
ApplyFusion ==
    /\ fpc = "called"
    /\ fScore' = IF fEngine = "tfidf"
                 THEN Tfidf_final_score(fSimilarity, fMatched, fTotal)
                 ELSE Kobert_final_score(fSimilarity, fMatched, fTotal)
    /\ fpc' = "returned"
    /\ UNCHANGED <<config, pc, comments, policies, locals, outcome, result, scored,
                   modelCalls, failedAt, directVars, keywordVars, vectorizerVars,
                   httpVars, fEngine, fSimilarity, fMatched, fTotal, instanceVars,
                   lateVars>>

NextFusion == ApplyFusion

SpecFusion == InitFusion /\ [][NextFusion]_vars

----------------------------------------------------------------------------
(* get_recommender_instance called by the request threads of the server.     *)
(* "if _recommender is None" reads the global, get_recommender() builds an   *)
(* engine, the assignment writes the global and "return _recommender" reads  *)
(* it again; nothing makes the three steps one.                              *)

Endpoints == {"health", "recommend", "keywords"}

InitInstance ==
    /\ max_recommendations = 1
    /\ recommender = "tfidf"
    /\ AnalyzeIdle
    /\ SentimentIdle
    /\ KeywordsIdle
    /\ min_df = 1
    /\ VectorizerIdle
    /\ HttpIdle
    /\ FusionIdle
    /\ InstanceIdle
    /\ LateIdle

\* a request reaches thread t, whose handler calls get_recommender_instance:
\* the test "_recommender is None"
InstanceCheck(t) ==
    /\ rpc[t] = "idle"
    /\ \E e \in Endpoints : rendpoint' = [rendpoint EXCEPT ![t] = e]
    /\ rpc' = [rpc EXCEPT ![t] = IF recommenderInstance = 0 THEN "building" ELSE "return"]
    /\ UNCHANGED <<recommenderInstance, constructions, rused>>

\* _recommender = get_recommender(): an engine is built and stored, or the
\* construction raises and the handler answers 500
InstanceBuild(t) ==
    /\ rpc[t] = "building"
    /\ \E raised \in BOOLEAN :
          IF raised
          THEN /\ rpc' = [rpc EXCEPT ![t] = "idle"]
               /\ rendpoint' = [rendpoint EXCEPT ![t] = "none"]
               /\ UNCHANGED <<recommenderInstance, constructions>>
          ELSE /\ constructions' = constructions + 1
               /\ recommenderInstance' = constructions + 1
               /\ rpc' = [rpc EXCEPT ![t] = "return"]
               /\ UNCHANGED rendpoint
    /\ UNCHANGED rused

\* return _recommender: the handler works with the object the global holds now
InstanceReturn(t) ==
    /\ rpc[t] = "return"
    /\ rused' = [rused EXCEPT ![t] = recommenderInstance]
    /\ rpc' = [rpc EXCEPT ![t] = "serving"]
    /\ UNCHANGED <<recommenderInstance, constructions, rendpoint>>

\* the handler of thread t has answered
InstanceDone(t) ==
    /\ rpc[t] = "serving"
    /\ rpc' = [rpc EXCEPT ![t] = "idle"]
    /\ rendpoint' = [rendpoint EXCEPT ![t] = "none"]
    /\ rused' = [rused EXCEPT ![t] = 0]
    /\ UNCHANGED <<recommenderInstance, constructions>>

InstanceStep(t) ==
    /\ (InstanceCheck(t) \/ InstanceBuild(t) \/ InstanceReturn(t) \/ InstanceDone(t))
    /\ UNCHANGED <<config, pc, comments, policies, locals, outcome, result, scored,
                   modelCalls, failedAt, directVars, keywordVars, vectorizerVars,
                   httpVars, fusionVars, lateVars>>

NextInstance == \E t \in Threads : InstanceStep(t)

SpecInstance == InitInstance /\ [][NextInstance]_vars

----------------------------------------------------------------------------
(* Properties of analyze *)

\* analyze has returned a dict
HasReturned == pc = "done" /\ outcome = "returned"

\* analyze has returned from its last statement, after the loop over the policies
ReturnedAfterLoop ==
    /\ HasReturned
    /\ comments # <<>>
    /\ policies # <<>>
    /\ sentiment # "negative"

\* positions of the policies whose matchScore reaches the threshold
Eligible == {i \in DOMAIN scored : scored[i].matchScore >= min_match_score}

ReturnedIds ==
    {result.recommendations[j].policyId : j \in DOMAIN result.recommendations}

\* C1 - Veto invariant: whenever analyze returns overallSentiment "negative",
\* in either engine, the returned recommendations list is empty.
VetoInvariant ==
    (HasReturned /\ result.overallSentiment = "negative")
        => result.recommendations = <<>>

\* a veto on a request that carries a well-formed policy whose keyword occurs
\* in the comments
VetoWitness ==
    /\ HasReturned
    /\ result.overallSentiment = "negative"
    /\ \E i \in DOMAIN policies :
          /\ policies[i].dict
          /\ MatchedKeywords(POLICY_KEYWORDS_get(policies[i].policyName),
                             join_texts(comments)) # <<>>

\* C2 - Score bounds: every matchScore that _match_policy produces, in either
\* engine, is an integer between 0 and 100.
ScoreBounds ==
    \A i \in DOMAIN scored :
        /\ scored[i].matchScore \in Int
        /\ 0 <= scored[i].matchScore
        /\ scored[i].matchScore <= 100

\* the embedding engine has scored a policy whose similarity is -1.0
ScoreBoundsWitness ==
    /\ recommender = "kobert"
    /\ \E i \in DOMAIN scored :
          scored[i].similarityScore = -10000 /\ scored[i].matchScore = 0

\* C3 - Ranking order: the returned recommendations are in non-increasing
\* order of matchScore.
RankingOrder ==
    HasReturned =>
        \A i \in 1..(Len(result.recommendations) - 1) :
            result.recommendations[i].matchScore
                >= result.recommendations[i + 1].matchScore

\* two recommendations came back in the reverse of their input order
RankingOrderWitness ==
    /\ HasReturned
    /\ Len(result.recommendations) >= 2
    /\ result.recommendations[1].policyId > result.recommendations[2].policyId
    /\ result.recommendations[1].matchScore > result.recommendations[2].matchScore

\* C4 - Threshold filter: the list built by the loop holds exactly the policies
\* scored so far whose matchScore >= min_match_score, in input order, and no
\* returned recommendation is below the threshold.
ThresholdFilter ==
    /\ pc = "loop" =>
          recommendations =
              SelectSeq(scored, LAMBDA r : r.matchScore >= min_match_score)
    /\ HasReturned =>
          \A j \in DOMAIN result.recommendations :
              result.recommendations[j].matchScore >= min_match_score

\* the loop has met a policy exactly on the threshold and one below it
ThresholdFilterWitness ==
    /\ pc = "loop"
    /\ \E i \in DOMAIN scored : scored[i].matchScore = min_match_score
    /\ \E i \in DOMAIN scored : scored[i].matchScore < min_match_score

\* C5 - Cap after sort: analyze returns min(max_recommendations, number of
\* eligible policies) recommendations, each of them the score record of an
\* eligible policy, and no eligible policy that was left out has a strictly
\* higher matchScore than a returned one.
CapAfterSort ==
    ReturnedAfterLoop =>
        /\ Len(result.recommendations)
              = (IF max_recommendations < Cardinality(Eligible)
                 THEN max_recommendations ELSE Cardinality(Eligible))
        /\ \A j \in DOMAIN result.recommendations :
              /\ result.recommendations[j].policyId \in Eligible
              /\ result.recommendations[j] = scored[result.recommendations[j].policyId]
        /\ \A i \in Eligible :
              scored[i].policyId \notin ReturnedIds =>
                  \A j \in DOMAIN result.recommendations :
                      result.recommendations[j].matchScore >= scored[i].matchScore

\* the cap dropped an eligible policy that stood earlier in the input than a
\* returned one with a higher score
CapAfterSortWitness ==
    /\ ReturnedAfterLoop
    /\ Cardinality(Eligible) > max_recommendations
    /\ \E i \in Eligible :
          /\ i \notin ReturnedIds
          /\ \E j \in DOMAIN result.recommendations :
                /\ result.recommendations[j].policyId > i
                /\ result.recommendations[j].matchScore > scored[i].matchScore

\* C6 - Empty-input short-circuit: with an empty comment list or an empty policy
\* list analyze returns exactly {recommendations: [], extractedKeywords: [],
\* overallSentiment: "neutral"}, without a skipReason key, without raising and
\* without touching the model.
EmptyInputShortCircuit ==
    (pc = "done" /\ (comments = <<>> \/ policies = <<>>)) =>
        /\ outcome = "returned"
        /\ DOMAIN result = {"recommendations", "extractedKeywords", "overallSentiment"}
        /\ result.recommendations = <<>>
        /\ result.extractedKeywords = <<>>
        /\ result.overallSentiment = "neutral"
        /\ modelCalls = <<>>

\* an empty policy list with comments that hold more negative than positive words
EmptyInputWitness ==
    /\ pc = "done"
    /\ policies = <<>>
    /\ comments # <<>>
    /\ CountIn(SENTIMENT_KEYWORDS.negative, join_texts(comments))
          > CountIn(SENTIMENT_KEYWORDS.positive, join_texts(comments))

\* number of entries of a word list that occur in the case-folded text
WordCount(words, t) ==
    Cardinality({i \in DOMAIN words : IsSubstring(words[i], Lower(t))})

\* C7 - Sentiment decision: analyze_sentiment answers "positive" iff more
\* positive than negative words occur in the case-folded text, "negative" iff
\* more negative than positive ones, and "neutral" when the counts are equal.
SentimentDecision ==
    verdict # "unset" =>
        LET positiveCount == WordCount(argPositive, argText)
            negativeCount == WordCount(argNegative, argText)
        IN  /\ verdict = "positive" <=> positiveCount > negativeCount
            /\ verdict = "negative" <=> negativeCount > positiveCount
            /\ verdict = "neutral" <=> positiveCount = negativeCount

\* a negative verdict that rests on case folding and on a word inside a token
SentimentDecisionWitness ==
    /\ verdict = "negative"
    /\ ~IsSubstring(<<"b">>, argText)
    /\ \E i \in DOMAIN argPositive : IsSubstring(argPositive[i], Lower(argText))
    /\ \E i \in DOMAIN argNegative : Len(argNegative[i]) = 2

\* C8 - Negative gate skips scoring: once the verdict on the combined text is
\* negative, analyze has returned; no policy was scored, neither the vectorizer
\* nor the model was invoked, and the result carries the keywords extracted
\* from the combined text.
NegativeGateSkipsScoring ==
    sentiment = "negative" =>
        /\ HasReturned
        /\ scored = <<>>
        /\ modelCalls = <<>>
        /\ extracted_keywords = extract_keywords(join_texts(comments), TOP_N)
        /\ result.extractedKeywords = extracted_keywords

\* a veto whose result carries a keyword although policies were waiting
NegativeGateWitness ==
    /\ sentiment = "negative"
    /\ pc = "done"
    /\ policies # <<>>
    /\ result.extractedKeywords # <<>>

\* C9 - skipReason presence: a returned result has the key skipReason iff its
\* overallSentiment is "negative", and then its value is the one fixed message.
SkipReasonPresence ==
    HasReturned =>
        /\ "skipReason" \in DOMAIN result <=> result.overallSentiment = "negative"
        /\ "skipReason" \in DOMAIN result => result.skipReason = SKIP_REASON

\* the lexical engine returned a result that has the key
SkipReasonWitness ==
    /\ HasReturned
    /\ recommender = "tfidf"
    /\ "skipReason" \in DOMAIN result

\* C10 - Per-policy failure isolation: when the scoring of one policy raises,
\* analyze still returns a result (the exception does not leave analyze).
PerPolicyFailureIsolation ==
    (pc = "done" /\ failedAt # 0) => outcome = "returned"

\* C11 - Strategy failure degrades to 0.0: in either engine, when the vectorizer
\* or the model raises while the similarity of a well-formed policy is computed,
\* the exception stays inside the similarity computation (the similarity counts
\* as 0.0) and analyze still returns.
StrategyFailureDegrades ==
    (pc = "done" /\ failedAt # 0 /\ policies[failedAt].dict)
        => outcome = "returned"

\* C16 - Stable tie-break: returned recommendations with equal matchScore stand
\* in their input order, and of two eligible policies with equal matchScore the
\* later-listed one is never returned without the earlier-listed one.
StableTieBreak ==
    ReturnedAfterLoop =>
        /\ \A i, j \in DOMAIN result.recommendations :
              (i < j /\ result.recommendations[i].matchScore
                           = result.recommendations[j].matchScore)
                  => result.recommendations[i].policyId
                        < result.recommendations[j].policyId
        /\ \A a, b \in Eligible :
              (a < b /\ scored[a].matchScore = scored[b].matchScore
                     /\ b \in ReturnedIds)
                  => a \in ReturnedIds

\* the cap cut between two policies with the same matchScore
StableTieBreakWitness ==
    /\ ReturnedAfterLoop
    /\ \E a, b \in Eligible :
          /\ a < b
          /\ scored[a].matchScore = scored[b].matchScore
          /\ a \in ReturnedIds
          /\ b \notin ReturnedIds

\* C19 - Empty text never reaches the model: in either engine neither the
\* vectorizer nor the model is ever invoked on an empty text, and when the
\* combined comment text is empty (every comment is "") no library call is made
\* and every similarity is 0.0.
EmptyTextNeverReachesModel ==
    /\ \A i \in DOMAIN modelCalls : modelCalls[i].arg # <<>>
    /\ (sentiment # "unset" /\ combined_comments = <<>>) =>
          /\ modelCalls = <<>>
          /\ \A i \in DOMAIN scored : scored[i].similarityScore = 0

----------------------------------------------------------------------------
(* Properties of extract_keywords *)

\* the tokens of the text of the direct call, as a set
KeywordTokens == {tokenize(kwText)[i] : i \in DOMAIN tokenize(kwText)}

\* C17 - Keyword cap: for every text and every top_n >= 0, extract_keywords
\* returns at most top_n items, all distinct, each of them a token of
\* tokenize(text); it returns [] for the empty text and for a text without tokens.
KeywordCap ==
    (kwpc = "returned") =>
        /\ Len(kwResult) <= kwTopN
        /\ \A i, j \in DOMAIN kwResult : i # j => kwResult[i] # kwResult[j]
        /\ \A i \in DOMAIN kwResult : kwResult[i] \in KeywordTokens
        /\ (kwText = <<>> \/ tokenize(kwText) = <<>>) => kwResult = <<>>

\* a text with more distinct tokens than top_n, one of them repeated
KeywordCapWitness ==
    /\ kwpc = "returned"
    /\ kwTopN >= 1
    /\ Cardinality(KeywordTokens) > kwTopN
    /\ Len(tokenize(kwText)) > Cardinality(KeywordTokens)
    /\ Len(kwResult) = kwTopN

\* position of the first occurrence of w in tokenize(text)
FirstSeen(w) ==
    CHOOSE i \in DOMAIN tokenize(kwText) :
        /\ tokenize(kwText)[i] = w
        /\ \A k \in 1..(i - 1) : tokenize(kwText)[k] # w

\* u is ranked before v: more occurrences, or as many and seen first
RankedBefore(u, v) ==
    LET cu == Cardinality({i \in DOMAIN tokenize(kwText) : tokenize(kwText)[i] = u})
        cv == Cardinality({i \in DOMAIN tokenize(kwText) : tokenize(kwText)[i] = v})
    IN  cu > cv \/ (cu = cv /\ FirstSeen(u) < FirstSeen(v))

\* C18 - Keyword ranking: extract_keywords returns the distinct tokens of
\* tokenize(text) by descending number of occurrences, tokens with the same
\* number in order of first occurrence, cut to the first top_n.
KeywordRanking ==
    (kwpc = "returned" /\ kwText # <<>>) =>
        /\ Len(kwResult) = (IF Cardinality(KeywordTokens) < kwTopN
                             THEN Cardinality(KeywordTokens) ELSE kwTopN)
        /\ \A i, j \in DOMAIN kwResult : i < j => RankedBefore(kwResult[i], kwResult[j])
        /\ \A w \in KeywordTokens :
              (\A i \in DOMAIN kwResult : kwResult[i] # w)
                  => \A i \in DOMAIN kwResult : RankedBefore(kwResult[i], w)

\* a token seen later came first by its count, in front of a token seen earlier
KeywordRankingWitness ==
    /\ kwpc = "returned"
    /\ Len(kwResult) = 2
    /\ FirstSeen(kwResult[1]) > FirstSeen(kwResult[2])

----------------------------------------------------------------------------
(* Properties of calculate_similarity on the shared vectorizer *)

\* C12 - Concurrent safety of the lexical engine: whatever the interleaving of
\* the calculate_similarity calls of several threads on one TfidfRecommender,
\* each call returns the value it returns when it runs alone.
ConcurrentCallsIsolated ==
    \A t \in Threads :
        tpc[t] = "done" =>
            tres[t] = SoloSimilarity(targs[t][1], targs[t][2], min_df)

\* C15 - History independence: on one engine instance used by one caller, the
\* value a call returns depends on its two texts and on the configuration only,
\* whatever weights earlier calls left in the shared vectorizer.
HistoryIndependence ==
    tpc[1] = "done" =>
        tres[1] = SoloSimilarity(targs[1][1], targs[1][2], min_df)

\* a call that found the weights of an earlier call over another number of
\* terms and returned a similarity above 0
HistoryIndependenceWitness ==
    /\ tpc[1] = "done"
    /\ tbefore[1] # <<>>
    /\ Len(tbefore[1]) # Len(idf_)
    /\ tres[1] > 0

----------------------------------------------------------------------------
(* Properties of the routes *)

\* C13 - Model load failure is reported at start-up: the engine is built before
\* any request is served, so a handler never finds it missing and its
\* construction never fails while /recommend, /keywords or /health is handled.
EngineBuiltBeforeRequests ==
    /\ endpoint # "none" => recommender # "none"
    /\ response.kind # "engine not built"

\* C14 - No silent strategy fallback: with RECOMMENDER_TYPE "kobert" the engine
\* in use is never the lexical one (get_recommender returns the embedding engine
\* or raises); the lexical engine is in use only when the configuration names it.
NoSilentFallback ==
    recommender = "tfidf" => RECOMMENDER_TYPE = "tfidf"

\* C20 - HTTP failure surface: every response of /gyu/reward/recommend that is
\* not a success is one of the structured missing-field responses (status 400);
\* no exception is turned into a response.
HttpFailureSurface ==
    (endpoint = "recommend" /\ hpc = "responded" /\ response.status # 200) =>
        /\ response.status = 400
        /\ response.kind \in {"no data", "no comments", "no policies"}

----------------------------------------------------------------------------
(* Properties of _match_policy *)

\* "<policyName>. <description>" of a policy entry
PolicyText(policy) ==
    PolicyGet(policy, "policyName", <<>>) \o <<".", " ">>
        \o PolicyGet(policy, "description", PolicyGet(policy, "policyName", <<>>))

\* C21 - Similarity input of the matcher: in either engine, the text that
\* _match_policy hands to the vectorizer or the model for a policy is
\* "<policyName>. <description>" of one of the policies of the request.
SimilarityInputIsPolicyText ==
    \A k \in DOMAIN modelCalls :
        (pc = "loop" /\ (modelCalls[k].op = "fit_transform" \/ k > 1)) =>
            \E i \in DOMAIN policies :
                policies[i].dict /\ modelCalls[k].arg = PolicyText(policies[i])

\* floor(min(100, max(0, num / den))) for den > 0
ClampedFloor(num, den) ==
    IF num <= 0 THEN 0
    ELSE CHOOSE m \in 0..100 :
            /\ m * den <= num
            /\ (m = 100 \/ (m + 1) * den > num)

EmbeddingFusion ==
    (fpc = "returned" /\ fEngine = "kobert") =>
        fScore = (IF fTotal = 0
                  THEN ClampedFloor(35 * (fSimilarity + SimScale), SimScale)
                  ELSE ClampedFloor(35 * (fSimilarity + SimScale) * fTotal
                                        + 30 * fMatched * SimScale,
                                    SimScale * fTotal))

----------------------------------------------------------------------------
(* Properties of get_recommender_instance *)

\* C24 - Engine constructed once: over any interleaving of concurrent requests
\* to /health, /recommend and /keywords at most one engine object is built, and
\* all handlers work with the same object.
EngineConstructedOnce ==
    /\ constructions <= 1
    /\ \A t, u \in Threads :
          (rpc[t] = "serving" /\ rpc[u] = "serving") => rused[t] = rused[u]

----------------------------------------------------------------------------
(* _generate_reason called directly, on a finer grid of similarities *)

\* a matched keyword list of n keywords; the i-th keyword has i characters
KeywordList(n) == [i \in 1..n |-> [j \in 1..i |-> "k"]]

InitReason ==
    /\ max_recommendations = 1
    /\ recommender = "tfidf"
    /\ AnalyzeIdle
    /\ SentimentIdle
    /\ KeywordsIdle
    /\ min_df = 1
    /\ VectorizerIdle
    /\ HttpIdle
    /\ FusionIdle
    /\ InstanceIdle
    /\ gEngine \in {"tfidf", "kobert"}
    /\ gSimilarity \in (IF gEngine = "tfidf" THEN 0..ReasonScale
                        ELSE (-ReasonScale)..ReasonScale)
    /\ gMatched \in {KeywordList(n) : n \in 0..MaxDictKeywords}
    /\ gpc = "called"
    /\ gReason = <<>>
    /\ TokenizerIdle
    /\ ChatIdle

\* reason = self._generate_reason(policy_name, matched_keywords, similarity_score)
ApplyReason ==
    /\ gpc = "called"
    /\ gReason' = IF gEngine = "tfidf"
                  THEN Tfidf_generate_reason(<<"p">>, gMatched, gSimilarity, ReasonScale)
                  ELSE Kobert_generate_reason(<<"p">>, gMatched, gSimilarity, ReasonScale)
    /\ gpc' = "returned"
    /\ UNCHANGED <<config, pc, comments, policies, locals, outcome, result, scored,
                   modelCalls, failedAt, directVars, keywordVars, vectorizerVars,
                   httpVars, fusionVars, instanceVars, gEngine, gSimilarity, gMatched,
                   tokenizerVars, chatVars>>

NextReason == ApplyReason

SpecReason == InitReason /\ [][NextReason]_vars

----------------------------------------------------------------------------
(* tokenize called directly, with and without the morphological analyzer *)

TokenizeChars == {"g", "s", " "}

\* part-of-speech tags the analyzer gives: a noun, a verb, and a particle,
\* which is not in VALID_POS
KiwiTags == {"NNG", "VV", "JKS"}

\* the analyzer on one word: the word as one morpheme, or cut into two
WordAnalyses(word) ==
    {<<[form |-> word, tag |-> a]>> : a \in KiwiTags}
    \cup {<<[form |-> SubSeq(word, 1, c), tag |-> a],
             [form |-> SubSeq(word, c + 1, Len(word)), tag |-> b]>> :
             <<c, a, b>> \in (1..(Len(word) - 1)) \X KiwiTags \X KiwiTags}

RECURSIVE AnalysesOf(_)
AnalysesOf(words) ==
    IF words = <<>> THEN {<<>>}
    ELSE {m \o rest : <<m, rest>> \in WordAnalyses(Head(words)) \X AnalysesOf(Tail(words))}

\* what self.kiwi.tokenize(text) can answer: the morphemes of the words of the
\* text, in the order of the text
KiwiAnalyses(text) == AnalysesOf(Split(text))

InitTokenizer ==
    /\ max_recommendations = 1
    /\ recommender = "tfidf"
    /\ AnalyzeIdle
    /\ SentimentIdle
    /\ KeywordsIdle
    /\ min_df = 1
    /\ VectorizerIdle
    /\ HttpIdle
    /\ FusionIdle
    /\ InstanceIdle
    /\ ReasonIdle
    /\ tkKiwi \in BOOLEAN
    /\ tkText \in TextsUpTo(TokenizeChars, MaxTokenizeLen)
    /\ tkUsePosFilter \in BOOLEAN
    /\ tkAnalysis = <<>>
    /\ tkpc = "called"
    /\ tkTokens = <<>>
    /\ ChatIdle

\* preprocessor.tokenize(text, use_pos_filter) runs and returns
ApplyTokenize ==
    /\ tkpc = "called"
    /\ \E analysis \in (IF tkKiwi /\ tkText # <<>>
                         THEN KiwiAnalyses(preprocess(tkText)) ELSE {<<>>}) :
          /\ tkAnalysis' = analysis
          /\ tkTokens' = TextPreprocessor_tokenize(tkKiwi, tkText, tkUsePosFilter, analysis)
    /\ tkpc' = "returned"
    /\ UNCHANGED <<config, pc, comments, policies, locals, outcome, result, scored,
                   modelCalls, failedAt, directVars, keywordVars, vectorizerVars,
                   httpVars, fusionVars, instanceVars, reasonVars, tkKiwi, tkText,
                   tkUsePosFilter, chatVars>>

NextTokenizer == ApplyTokenize

SpecTokenizer == InitTokenizer /\ [][NextTokenizer]_vars

----------------------------------------------------------------------------
(* The chatbot of src/young/chatbot: handle_question and its chat_history. *)
(* The calls come one after the other.  "x x" stands for a swear word, "q" *)
(* and "qq" for questions, "a" for the answer of the language model.       *)

\* question_service.BAD_WORDS
BAD_WORDS == { <<"x", "x">> }

\* the messages a caller can send
ChatMessages == { <<>>, <<"q">>, <<"q", "q">>, <<"x", "x">>, <<"x", " ", "x">> }

\* what ask_ollama can return
ChatAnswers == { <<"a">> }

\* len(chat_history) > 20 and del chat_history[:-20]
HistoryLimit == 20

\* text_utils.normalize_korean_text: "".join(text.split())
normalize_korean_text(text) == SelectSeq(text, LAMBDA c : ~IsSpace(c))

\* question_service.is_invalid_question
is_invalid_question(raw_text, normalized_text) ==
    \/ raw_text = <<>>
    \/ \E bad \in BAD_WORDS :
          IsSubstring(bad, raw_text) \/ IsSubstring(bad, normalized_text)

\* the first 20 entries kept instead of the last 20
TrimHistory_keep_oldest(history) ==
    IF Len(history) > HistoryLimit THEN SubSeq(history, 1, HistoryLimit) ELSE history

\* if len(chat_history) > 20: del chat_history[:-20]
TrimHistory(history) ==
    IF Len(history) > HistoryLimit
    THEN SubSeq(history, Len(history) - HistoryLimit + 1, Len(history))
    ELSE history

\* what a call of handle_question leaves alone
nonChatVars == <<config, pc, comments, policies, locals, outcome, result, scored,
                 modelCalls, failedAt, directVars, keywordVars, vectorizerVars,
                 httpVars, fusionVars, instanceVars, reasonVars, tokenizerVars>>

\* the module is imported: the knowledge base is loaded, or loading failed and
\* documents, vectorizer, doc_vectors stay empty
InitChat ==
    /\ max_recommendations = 1
    /\ recommender = "tfidf"
    /\ AnalyzeIdle
    /\ SentimentIdle
    /\ KeywordsIdle
    /\ min_df = 1
    /\ VectorizerIdle
    /\ HttpIdle
    /\ FusionIdle
    /\ InstanceIdle
    /\ ReasonIdle
    /\ TokenizerIdle
    /\ knowledgeBase \in BOOLEAN
    /\ chat_history = <<>>
    /\ user_message = <<>>
    /\ cpc = "idle"
    /\ answer = <<>>
    /\ chatResult = "none"
    /\ historyBefore = <<>>

\* handle_question(user_message) is called
ChatCall ==
    /\ cpc = "idle"
    /\ user_message' \in ChatMessages
    /\ historyBefore' = chat_history
    /\ cpc' = "called"
    /\ answer' = <<>>
    /\ chatResult' = "none"
    /\ UNCHANGED <<knowledgeBase, chat_history, nonChatVars>>

\* the swear word test on the raw message, the normalisation, and
\* is_invalid_question on both: a blocked question is answered at once
ChatFilter ==
    /\ cpc = "called"
    /\ IF \/ \E bad \in BAD_WORDS : IsSubstring(bad, user_message)
          \/ is_invalid_question(user_message, normalize_korean_text(user_message))
       THEN cpc' = "returned" /\ chatResult' = "blocked"
       ELSE cpc' = "cluster" /\ UNCHANGED chatResult
    /\ UNCHANGED <<knowledgeBase, chat_history, user_message, answer, historyBefore,
                   nonChatVars>>

\* upsert_issue_cluster and save_question_log work on the database and the
\* embedding model: they pass, or an exception reaches the except clause
ChatClusterAndLog ==
    /\ cpc = "cluster"
    /\ \E passed \in BOOLEAN :
          IF passed
          THEN cpc' = "kb" /\ UNCHANGED chatResult
          ELSE cpc' = "returned" /\ chatResult' = "error"
    /\ UNCHANGED <<knowledgeBase, chat_history, user_message, answer, historyBefore,
                   nonChatVars>>

\* if not documents or not vectorizer or doc_vectors is None
ChatKnowledgeBase ==
    /\ cpc = "kb"
    /\ IF knowledgeBase
       THEN cpc' = "llm" /\ UNCHANGED chatResult
       ELSE cpc' = "returned" /\ chatResult' = "uninitialised"
    /\ UNCHANGED <<knowledgeBase, chat_history, user_message, answer, historyBefore,
                   nonChatVars>>

\* build_context_text and ask_ollama: an answer comes back, or an exception
\* (the request to the language model failed) reaches the except clause
ChatAskOllama ==
    /\ cpc = "llm"
    /\ \/ /\ answer' \in ChatAnswers
          /\ cpc' = "append"
          /\ UNCHANGED chatResult
       \/ /\ cpc' = "returned"
          /\ chatResult' = "error"
          /\ UNCHANGED answer
    /\ UNCHANGED <<knowledgeBase, chat_history, user_message, historyBefore,
                   nonChatVars>>

\* the two appends, the cut to the last 20 entries, and the return
ChatAppend ==
    /\ cpc = "append"
    /\ chat_history' = TrimHistory(chat_history
                          \o <<[role |-> "user", content |-> user_message],
                               [role |-> "assistant", content |-> answer]>>)
    /\ cpc' = "returned"
    /\ chatResult' = "answer"
    /\ UNCHANGED <<knowledgeBase, user_message, answer, historyBefore, nonChatVars>>

\* the route has sent the answer; the next question can come
ChatDone ==
    /\ cpc = "returned"
    /\ cpc' = "idle"
    /\ UNCHANGED <<knowledgeBase, chat_history, user_message, answer, chatResult,
                   historyBefore, nonChatVars>>

NextChat ==
    ChatCall \/ ChatFilter \/ ChatClusterAndLog \/ ChatKnowledgeBase
        \/ ChatAskOllama \/ ChatAppend \/ ChatDone

SpecChat == InitChat /\ [][NextChat]_vars

----------------------------------------------------------------------------
(* Properties of the keyword match of _match_policy *)

\* C25 - Keyword match ratio: for every scored policy the dictionary lookup by
\* the policy's name raises nothing and gives the empty list for a name that
\* is not in the dictionary; the reported keywords are exactly the dictionary
\* keywords that occur as a substring of the combined text, in dictionary
\* order; the keyword score that enters matchScore is their number divided by
\* the number of dictionary keywords, and 0 for an empty dictionary entry.
KeywordMatchRatio ==
    \A i \in DOMAIN scored :
        LET policy_keywords == POLICY_KEYWORDS_get(scored[i].policyName)
            expected == SelectSeq(policy_keywords,
                                  LAMBDA k : IsSubstring(k, combined_comments))
            similarity == (scored[i].similarityScore * SimScale) \div 10000
        IN  /\ policies[i].dict
            /\ scored[i].policyName # <<"p">> => policy_keywords = <<>>
            /\ scored[i].keywords = expected
            /\ scored[i].matchScore =
                  (IF recommender = "tfidf"
                   THEN Tfidf_final_score(similarity, Len(expected), Len(policy_keywords))
                   ELSE Kobert_final_score(similarity, Len(expected), Len(policy_keywords)))

\* a policy with two dictionary keywords of which exactly one occurs in the
\* combined text, and a policy whose name is not in the dictionary
KeywordMatchRatioWitness ==
    /\ pc = "done"
    /\ outcome = "returned"
    /\ \E i \in DOMAIN scored :
          /\ Len(POLICY_KEYWORDS_get(scored[i].policyName)) = 2
          /\ Len(scored[i].keywords) = 1
    /\ \E i \in DOMAIN scored :
          /\ POLICY_KEYWORDS_get(scored[i].policyName) = <<>>
          /\ scored[i].keywords = <<>>

----------------------------------------------------------------------------
(* Properties of _generate_reason *)

\* the relevance clauses of a reason, in order
BandClauses(reasons) ==
    SelectSeq(reasons, LAMBDA r : r.clause \in {"high", "medium", "weak"})

\* C26 - Reason relevance bands: in both engines the reason has one relevance
\* clause chosen by the raw similarity: high for similarity >= 0.5, medium for
\* 0.3 <= similarity < 0.5, weak for 0.1 <= similarity < 0.3, and none below 0.1.
ReasonRelevanceBands ==
    gpc = "returned" =>
        BandClauses(gReason) =
            (IF 2 * gSimilarity >= ReasonScale
             THEN <<[clause |-> "high", keywords |-> <<>>]>>
             ELSE IF 10 * gSimilarity >= 3 * ReasonScale
                  THEN <<[clause |-> "medium", keywords |-> <<>>]>>
             ELSE IF 10 * gSimilarity >= ReasonScale
                  THEN <<[clause |-> "weak", keywords |-> <<>>]>>
             ELSE <<>>)

\* C27 - Reason keyword clause: the reason is never empty; with at least one
\* matched keyword it names the first 3 of them at most, in their order; with
\* no matched keyword it holds the default clause, whether or not a relevance
\* clause is present.
ReasonKeywordClause ==
    gpc = "returned" =>
        /\ gReason # <<>>
        /\ gMatched # <<>> =>
              /\ \E i \in DOMAIN gReason :
                    /\ gReason[i].clause = "keywords"
                    /\ gReason[i].keywords
                          = SubSeq(gMatched, 1, Min(3, Len(gMatched)))
              /\ \A i \in DOMAIN gReason : gReason[i].clause # "basic"
        /\ gMatched = <<>> =>
              /\ \E i \in DOMAIN gReason : gReason[i].clause = "basic"
              /\ \A i \in DOMAIN gReason : gReason[i].clause # "keywords"

----------------------------------------------------------------------------
(* Properties of tokenize *)

RECURSIVE OccursInOrder(_, _, _)
\* the tokens occur in the text one after the other, from position from on
OccursInOrder(tokens, text, from) ==
    \/ tokens = <<>>
    \/ \E p \in from..(Len(text) - Len(Head(tokens)) + 1) :
          /\ SubSeq(text, p, p + Len(Head(tokens)) - 1) = Head(tokens)
          /\ OccursInOrder(Tail(tokens), text, p + Len(Head(tokens)))

\* C28 - Tokenizer post-filter: with and without the morphological analyzer
\* every token tokenize returns is no stopword and has at least 2 characters,
\* the tokens stand in the order in which they occur in the source text, and
\* the empty text gives the empty sequence.
TokenizerPostFilter ==
    tkpc = "returned" =>
        /\ \A i \in DOMAIN tkTokens :
              tkTokens[i] \notin STOPWORDS /\ Len(tkTokens[i]) >= 2
        /\ OccursInOrder(tkTokens, tkText, 1)
        /\ tkText = <<>> => tkTokens = <<>>

\* the analyzer path returned two different tokens and dropped a morpheme
TokenizerPostFilterWitness ==
    /\ tkpc = "returned"
    /\ tkKiwi
    /\ Len(tkTokens) = 2
    /\ tkTokens[1] # tkTokens[2]
    /\ Len(tkAnalysis) > 2

----------------------------------------------------------------------------
(* Properties of analyze on comments that are all empty *)

\* a request of the lexical engine with comments that are all the empty text,
\* at least one policy, and well-formed policy entries
AllEmptyRequest ==
    /\ recommender = "tfidf"
    /\ pc \in {"loop", "done"}
    /\ comments # <<>>
    /\ \A i \in DOMAIN comments : comments[i] = <<>>
    /\ policies # <<>>
    /\ \A i \in DOMAIN policies : policies[i].dict

\* C29 - All-empty comments are not short-circuited: for a non-empty comment
\* list of empty texts and a non-empty policy list the lexical engine goes on
\* with an empty combined text, scores every policy with matchScore 0, and
\* returns overallSentiment "neutral", extractedKeywords [] and, the threshold
\* being above 0, no recommendation.
AllEmptyCommentsProceed ==
    AllEmptyRequest =>
        /\ combined_comments = <<>>
        /\ sentiment = "neutral"
        /\ extracted_keywords = <<>>
        /\ \A i \in DOMAIN scored : scored[i].matchScore = 0
        /\ recommendations = <<>>
        /\ pc = "done" =>
              /\ outcome = "returned"
              /\ Len(scored) = Len(policies)
              /\ result = [recommendations |-> <<>>,
                           extractedKeywords |-> <<>>,
                           overallSentiment |-> "neutral"]

\* two empty comments and two policies, one of them with dictionary keywords:
\* both were scored and analyze has returned
AllEmptyCommentsWitness ==
    /\ AllEmptyRequest
    /\ pc = "done"
    /\ Len(comments) = 2
    /\ Len(scored) = 2
    /\ \E i \in DOMAIN scored : POLICY_KEYWORDS_get(scored[i].policyName) # <<>>
    /\ min_match_score > 0

----------------------------------------------------------------------------
(* Properties of handle_question *)

\* the last n entries of a list
LastEntries(history, n) ==
    IF Len(history) > n THEN SubSeq(history, Len(history) - n + 1, Len(history))
    ELSE history

\* C30 - Bounded chat history: whenever a handle_question call returns,
\* chat_history has at most 20 entries; a call that got an answer of the
\* language model has appended one user entry and then one assistant entry
\* and dropped the oldest entries beyond 20; a call that was blocked by the
\* swear word filter, found the knowledge base uninitialised or failed with
\* an exception has left chat_history as it was.
BoundedChatHistory ==
    /\ cpc \in {"idle", "returned"} => Len(chat_history) <= 20
    /\ cpc = "returned" =>
          /\ chatResult \in {"answer", "blocked", "uninitialised", "error"}
          /\ chatResult = "answer" =>
                chat_history = LastEntries(
                    historyBefore \o <<[role |-> "user", content |-> user_message],
                                       [role |-> "assistant", content |-> answer]>>, 20)
          /\ chatResult # "answer" => chat_history = historyBefore
          /\ is_invalid_question(user_message, normalize_korean_text(user_message))
                => chatResult = "blocked"
          /\ ~knowledgeBase => chatResult # "answer"

\* an answered call that found 20 entries and dropped the two oldest, after
\* blocked and failed calls; the entries it dropped and kept differ
BoundedChatHistoryWitness ==
    /\ cpc = "returned"
    /\ chatResult = "answer"
    /\ Len(historyBefore) = 20
    /\ historyBefore[1] # historyBefore[3]
    /\ chat_history[1] = historyBefore[3]

====
